---------------------------- MODULE Spec2Model ----------------------------
(***************************************************************************)
(* Safety Dodger (src/safety_dodger_manufacturing_edition_react.jsx): the  *)
(* React component SafetyDodger as a state machine.                        *)
(*                                                                         *)
(* One action per handler (frame callback, touch interval callback, key    *)
(* and button handlers).  The state updates a handler queues are applied   *)
(* as one batch, in the order queued, and the effects whose dependencies   *)
(* changed re-run before the next handler.                                 *)
(*                                                                         *)
(* Arithmetic.  The source computes in floating point; the model computes  *)
(* the same expressions exactly, in fixed point:                           *)
(*   - times are integer milliseconds;                                     *)
(*   - dt = (now - last) / 16.6667 = (now - last) * 10000 / 166667, so     *)
(*     horizontal and vertical positions are kept in units of 1/166667 px  *)
(*     (FRAME_UNIT units to the pixel) and speedScale in units of 1/333334;*)
(*   - an item's vy is kept in hundredths of a pixel per frame.            *)
(***************************************************************************)
EXTENDS Integers, Sequences, FiniteSets, TLC

\* ------------------------------------------------------------------------
\* Program constants (lines 33-40, 66) and the fixed-point units
\* ------------------------------------------------------------------------
CANVAS_W == 420
CANVAS_H == 640
PLAYER_W == 60
PLAYER_H == 16
ITEM_W == 54
ITEM_H == 28
\* BASE_SPEED = 2.2 px per frame, in hundredths
BASE_SPEED == 220
\* Math.random() * 1.4 < 1.4, in hundredths
SPEED_SPREAD == 140
SPAWN_MS == 700
\* the floor of the spawn interval, Math.max(180, ...)
SPAWN_FLOOR_MS == 180
\* 16.6667 ms per frame, times 10^4: positions count 1/FRAME_UNIT px
FRAME_UNIT == 166667
\* speedScale 1.0 in units of 1/(2 * FRAME_UNIT)
SCALE_ONE == 333334
\* speedScale 3.5 in the same units
SCALE_MAX == 1166669
\* 0.0007 * dt = 14 * ms / 333334
RAMP_PER_MS == 14
\* 6.0 * dt px = 60000 * ms / 166667 px
PLAYER_SPEED_PER_MS == 60000
\* vy * dt * 3 px = (vy/100) * (ms * 10000 / 166667) * 3 px = 300 * vy * ms units
FALL_PER_MS == 300
\* the touch interval moves the paddle by 8 px
TOUCH_STEP == 8
\* the paddle band starts PLAYER_H + 6 above the bottom
PLAYER_GAP == 6
\* items are dropped once ny >= CANVAS_H + 40
DROP_MARGIN == 40

Px(n) == n * FRAME_UNIT

\* ------------------------------------------------------------------------
\* Bounds of the model
\* ------------------------------------------------------------------------
\* performance.now() when the component mounts
MountTime == 10
\* animation frames delivered since the mount (in SpecLoop, elsewhere)
LoopFrames == 3
MaxFrames == 2
\* callbacks of the touch interval since the mount (in SpecPaddle, elsewhere)
PaddleTouchTicks == 2
MaxTouchTicks == 1
\* movement keys held at the same time
MaxHeld == 2
\* records on the leaderboard (in SpecBoard, in Spec)
BoardSize == 4
MaxBoard == 1

\* Offsets (ms) of a frame's timestamp from the latest performance.now()
\* reading.  A negative offset is a frame whose timestamp (the start of the
\* frame) precedes the performance.now() that the re-subscribed effect read.
RafOffsets == {-3, 710, 1000}
\* Offsets for the spawn timer: a frame 320 ms after a spawn (over the floor,
\* under the interval), one 690 ms after it (over the interval once
\* speedScale has grown) and one 730 ms after it
SpawnOffsets == {300, 670, 710}
\* Time (ms) from a frame callback to the effects of the render it caused
EffectDelays == {20}

\* Outcomes of Math.random() * (CANVAS_W - ITEM_W), in px
XChoices == {0, 170}
\* Outcomes of vy, hundredths of a px per frame; a spawn picks those inside
\* [BASE_SPEED * speedScale, (BASE_SPEED + 1.4) * speedScale)
VyChoices == {220, 240, 350}

MoveKeys == {"arrowleft", "arrowright", "a", "d"}

\* touchDir when no button is pressed
Null == "null"

\* Texts.  A text is not JSON at all, the text of a JSON value that cannot be
\* iterated (a number, an object, null, true), or the text of a JSON array,
\* with the texts of its elements.
NotJson == [kind |-> "invalid"]
JsonScalar == [kind |-> "scalar"]
JsonArray(elems) == [kind |-> "array", elems |-> elems]
EmptyText == [kind |-> "empty"]
\* a falsy element of a JSON array (null)
JsonNull == [null |-> TRUE]
\* localStorage.getItem of a key that is not set
NoEntry == [kind |-> "absent"]

\* Records that another session left in storage or that a user pastes
Rec(n, d, sc, t) == [name |-> n, dept |-> d, score |-> sc, dateISO |-> t]
OldLow == Rec(<<"\\", "L", "\"">>, <<"Q">>, 0, 1)
OldHigh == Rec(<<"H">>, <<"Q">>, 12, 2)

\* JSON.stringify of a string, without the quotes around it: a quote and a
\* backslash are written behind a backslash
RECURSIVE Escape(_)
Escape(str) ==
  IF str = <<>> THEN <<>>
  ELSE (IF Head(str) \in {"\"", "\\"} THEN <<"\\", Head(str)>> ELSE <<Head(str)>>)
       \o Escape(Tail(str))

\* JSON.parse of the text of a string
RECURSIVE Unescape(_)
Unescape(txt) ==
  IF txt = <<>> THEN <<>>
  ELSE IF Head(txt) = "\\" /\ Len(txt) >= 2
       THEN <<txt[2]>> \o Unescape(SubSeq(txt, 3, Len(txt)))
       ELSE <<Head(txt)>> \o Unescape(Tail(txt))

DigitChars == <<"0", "1", "2", "3", "4", "5", "6", "7", "8", "9">>

\* JSON.stringify of a number that is a natural number: its decimal digits
RECURSIVE Digits(_)
Digits(n) ==
  IF n < 10 THEN <<DigitChars[n + 1]>>
  ELSE Digits(n \div 10) \o <<DigitChars[(n % 10) + 1]>>

DigitValue(c) == CHOOSE v \in 0..9 : DigitChars[v + 1] = c

\* JSON.parse of the text of a natural number
RECURSIVE Number(_)
Number(txt) ==
  IF txt = <<>> THEN 0
  ELSE 10 * Number(SubSeq(txt, 1, Len(txt) - 1)) + DigitValue(txt[Len(txt)])

\* JSON.stringify of a record: the text of each of its properties
JsonRecord(r) ==
  [name |-> Escape(r.name), dept |-> Escape(r.dept), score |-> Digits(r.score),
   dateISO |-> r.dateISO]

\* JSON.parse of the text of a record
ParseRecord(e) ==
  Rec(Unescape(e.name), Unescape(e.dept), Number(e.score), e.dateISO)

\* What localStorage holds when the component mounts
InitialStorage ==
  {NoEntry, NotJson, JsonArray(<<>>), JsonArray(<<JsonRecord(OldLow), JsonRecord(OldHigh)>>)}

\* What the user pastes into the import box
ImportTexts ==
  {NotJson, JsonScalar, JsonArray(<<JsonRecord(OldLow), JsonNull, JsonRecord(OldHigh)>>)}

\* What the user types into the name and department inputs
NameChoices == {<<" ">>, <<" ", "K", " ">>}
DeptChoices == {<<" ">>, <<"Q", " ">>}

Min2(a, b) == IF a < b THEN a ELSE b
Max2(a, b) == IF a > b THEN a ELSE b

\* ------------------------------------------------------------------------
\* State
\* ------------------------------------------------------------------------
VARIABLES
  playerX,       \* useState, 1/FRAME_UNIT px
  score,         \* useState
  running,       \* useState
  gameOver,      \* useState
  items,         \* useState: sequence of [id, x, y, vy, type]
  speedScale,    \* useState, 1/SCALE_ONE
  name,          \* useState: sequence of characters
  dept,          \* useState: sequence of characters
  leaderboard,   \* useState: sequence of records
  showExport,    \* useState
  importText,    \* useState: a text
  touchDir,      \* useState: "left", "right" or Null
  keysRef,       \* useRef: the movement keys held down
  lastSpawnRef,  \* useRef, ms
  idSeedRef,     \* useRef
  last,          \* `last` of the game loop effect's closure, ms
  storage,       \* localStorage[STORAGE_KEY]: NoEntry or a text
  clock,         \* the latest reading of performance.now(), ms
  rafTime,       \* the timestamp of the latest animation frame, ms
  frames,        \* animation frames delivered
  touchTicks,    \* touch interval callbacks run
  mounted,       \* the component is mounted
  rafRef,        \* the frame callbacks registered, as rafRef.current sees them
  intervals,     \* the touch intervals registered (setInterval not yet cleared)
  ev             \* the handler that ran last, with the state it started from

gameVars == <<playerX, score, running, gameOver, items, speedScale>>
formVars == <<name, dept, showExport, importText>>
boardVars == <<leaderboard, storage>>
refVars == <<keysRef, lastSpawnRef, idSeedRef>>
timeVars == <<last, clock, rafTime, frames, rafRef>>
subsVars == <<mounted, intervals>>
vars == <<gameVars, formVars, boardVars, refVars, timeVars, touchDir, touchTicks,
         subsVars, ev>>

\* ------------------------------------------------------------------------
\* Pure functions
\* ------------------------------------------------------------------------
clamp_NoLowerBound(n, min, max) == Min2(max, n)

clamp(n, min, max) == Max2(min, Min2(max, n))

\* the collision test of the item loop: it at height ny against the paddle at px
Collide(it, ny, px) ==
  /\ ny + Px(ITEM_H) >= Px(CANVAS_H - PLAYER_H - PLAYER_GAP)
  /\ Px(it.x) < px + Px(PLAYER_W)
  /\ Px(it.x) + Px(ITEM_W) > px

\* ny = it.y + it.vy * dt * 3
FallTo(it, dt) == it.y + FALL_PER_MS * it.vy * dt

\* the loop's exits and branches, on the accumulators `next` and `gained`
HazardHit_KeepsGained(next, gained) == [items |-> <<>>, gained |-> gained, ended |-> TRUE]

HazardHit_ReturnsNext(next, gained) == [items |-> next, gained |-> 0, ended |-> TRUE]

\* endGame(); return []  -- setScore is never reached
HazardHit(next, gained) == [items |-> <<>>, gained |-> 0, ended |-> TRUE]

Collected_PopsPrevious(next, gained) ==
  [next |-> IF next = <<>> THEN next ELSE SubSeq(next, 1, Len(next) - 1),
   gained |-> gained + 1]

\* gained += 1; continue
Collected(next, gained) == [next |-> next, gained |-> gained + 1]

\* if (ny < CANVAS_H + 40) next.push({...it, y: ny})
Kept(next, it, ny) ==
  IF ny < Px(CANVAS_H + DROP_MARGIN) THEN Append(next, [it EXCEPT !.y = ny]) ELSE next

RECURSIVE ItemLoop(_, _, _, _, _, _)
ItemLoop(arr, i, dt, px, next, gained) ==
  IF i > Len(arr)
  THEN [items |-> next, gained |-> gained, ended |-> FALSE]
  ELSE LET it == arr[i]
           ny == FallTo(it, dt)
       IN IF Collide(it, ny, px)
          THEN IF it.type = "hazard"
               THEN HazardHit(next, gained)
               ELSE LET c == Collected(next, gained)
                    IN ItemLoop(arr, i + 1, dt, px, c.next, c.gained)
          ELSE ItemLoop(arr, i + 1, dt, px, Kept(next, it, ny), gained)

\* the updater of "Move items & collisions" applied to arr
MoveItems(arr, dt, px) == ItemLoop(arr, 1, dt, px, <<>>, 0)

SpawnDue_FloorOnly(gap, s) == gap > SPAWN_FLOOR_MS

\* now - lastSpawnRef.current > Math.max(180, SPAWN_MS / speedScale), with
\* gap = now - lastSpawnRef.current and s = speedScale.  SPAWN_MS / s <= SPAWN_MS,
\* so a gap of SPAWN_MS or more exceeds it; below that the products compare.
SpawnDue(gap, s) ==
  /\ gap > SPAWN_FLOOR_MS
  /\ \/ gap >= SPAWN_MS
     \/ gap * s > SPAWN_MS * SCALE_ONE

\* the values (BASE_SPEED + Math.random() * 1.4) * speedScale can take
VyRange(s) ==
  {v \in VyChoices : /\ v * SCALE_ONE >= BASE_SPEED * s
                     /\ v * SCALE_ONE < (BASE_SPEED + SPEED_SPREAD) * s}

\* the item a spawn creates
NewItem(id, x, vy, isSafety) ==
  [id |-> id, x |-> x, y |-> Px(0 - ITEM_H), vy |-> vy,
   type |-> IF isSafety THEN "safety" ELSE "hazard"]

\* name.trim(): leading and trailing white space removed
RECURSIVE TrimStart(_)
TrimStart(str) ==
  IF str # <<>> /\ Head(str) = " " THEN TrimStart(Tail(str)) ELSE str

RECURSIVE TrimEnd(_)
TrimEnd(str) ==
  IF str # <<>> /\ str[Len(str)] = " " THEN TrimEnd(SubSeq(str, 1, Len(str) - 1)) ELSE str

trim(str) == TrimEnd(TrimStart(str))

\* the comparator (a, b) => b.score - a.score
ByScoreDesc(a, b) == b.score - a.score

\* e goes behind every element the comparator does not put after it
RECURSIVE InsertSorted(_, _)
InsertSorted(sorted, e) ==
  IF sorted = <<>> THEN <<e>>
  ELSE IF ByScoreDesc(Head(sorted), e) <= 0
       THEN <<Head(sorted)>> \o InsertSorted(Tail(sorted), e)
       ELSE <<e>> \o sorted

\* arr.sort((a, b) => b.score - a.score): a stable sort
RECURSIVE Sort(_)
Sort(arr) ==
  IF arr = <<>> THEN <<>>
  ELSE InsertSorted(Sort(SubSeq(arr, 1, Len(arr) - 1)), arr[Len(arr)])

FilterBoolean_ByScore(arr) == SelectSeq(arr, LAMBDA e : e # JsonNull /\ e.score # 0)

\* filter(Boolean)
FilterBoolean(arr) == SelectSeq(arr, LAMBDA e : e # JsonNull)

\* The frame callbacks registered with the browser, seen from rafRef.current:
\* live says that the request whose handle rafRef.current holds is registered,
\* orphans counts the registered requests whose handle it holds no more.
\* requestAnimationFrame(tick), the handle written to rafRef.current
RequestFrame(reg) ==
  [live |-> TRUE, orphans |-> reg.orphans + (IF reg.live THEN 1 ELSE 0)]

\* cancelAnimationFrame(rafRef.current)
CancelFrame(reg) == [reg EXCEPT !.live = FALSE]

\* the browser takes the callback off its list and runs it
RunFrame(reg) == [reg EXCEPT !.live = FALSE]

LoopCleanup_NoCancel(reg) == reg

\* the cleanup of the game loop effect
LoopCleanup(reg) == CancelFrame(reg)

\* the body of the game loop effect, after `let last`
LoopEffect(reg) == RequestFrame(reg)

\* the frame callbacks registered
FrameCallbacks(reg) == reg.orphans + (IF reg.live THEN 1 ELSE 0)

TouchCleanup_NoClear(dir, n) == n

\* the cleanup of the touch effect: clearInterval(id), when it set one
TouchCleanup(dir, n) == IF dir # Null THEN n - 1 ELSE n

\* the body of the touch effect: setInterval, unless !touchDir
TouchEffect(dir, n) == IF dir # Null THEN n + 1 ELSE n

\* the touch effect re-runs when touchDir changed
TouchResubscribe(old, new, n) ==
  IF new = old THEN n ELSE TouchEffect(new, TouchCleanup(old, n))

Left == ("arrowleft" \in keysRef) \/ ("a" \in keysRef)
Right == ("arrowright" \in keysRef) \/ ("d" \in keysRef)

\* ------------------------------------------------------------------------
\* Initial state: the component after its first render and effects
\* ------------------------------------------------------------------------
\* JSON.parse of a text: ok is FALSE when it throws
JSONparse(text) ==
  IF text.kind = "array"
  THEN [ok |-> TRUE, iterable |-> TRUE,
        value |-> [i \in DOMAIN text.elems |->
                     IF text.elems[i] = JsonNull THEN JsonNull
                     ELSE ParseRecord(text.elems[i])]]
  ELSE IF text.kind = "scalar" THEN [ok |-> TRUE, iterable |-> FALSE, value |-> <<>>]
  ELSE [ok |-> FALSE, iterable |-> FALSE, value |-> <<>>]

\* JSON.stringify of a leaderboard
JSONstringify(lb) ==
  JsonArray([i \in DOMAIN lb |->
               IF lb[i] = JsonNull THEN JsonNull ELSE JsonRecord(lb[i])])

\* the initializer of the leaderboard state
LoadLeaderboard(raw) ==
  IF raw = NoEntry THEN <<>>
  ELSE IF JSONparse(raw).ok THEN JSONparse(raw).value ELSE <<>>

Mounted == [op |-> "mount"]
\* a handler that changes nothing but an input of a later handler
Input == [op |-> "input"]

Init(stored) ==
  /\ playerX = Px(CANVAS_W - PLAYER_W) \div 2
  /\ score = 0
  /\ running = FALSE
  /\ gameOver = FALSE
  /\ items = <<>>
  /\ speedScale = SCALE_ONE
  /\ name = <<>>
  /\ dept = <<>>
  /\ storage \in stored
  /\ leaderboard = LoadLeaderboard(storage)
  /\ showExport = FALSE
  /\ importText = EmptyText
  /\ touchDir = Null
  /\ keysRef = {}
  /\ lastSpawnRef = 0
  /\ idSeedRef = 1
  /\ clock = MountTime
  /\ last = MountTime
  /\ rafTime = 0
  /\ frames = 0
  /\ touchTicks = 0
  /\ mounted = TRUE
  /\ rafRef = LoopEffect([live |-> FALSE, orphans |-> 0])
  /\ intervals = TouchEffect(touchDir, 0)
  /\ ev = Mounted

\* ------------------------------------------------------------------------
\* The game loop
\* ------------------------------------------------------------------------
start_KeepsItems ==
  /\ items' = items
  /\ score' = 0
  /\ speedScale' = SCALE_ONE
  /\ gameOver' = FALSE
  /\ running' = TRUE
  /\ lastSpawnRef' = clock

\* start()
start ==
  /\ items' = <<>>
  /\ score' = 0
  /\ speedScale' = SCALE_ONE
  /\ gameOver' = FALSE
  /\ running' = TRUE
  /\ lastSpawnRef' = clock

\* pause()
pause == running' = FALSE

endGame_KeepsRunning ==
  /\ running' = running
  /\ gameOver' = TRUE

\* endGame()
endGame ==
  /\ running' = FALSE
  /\ gameOver' = TRUE

\* The game loop effect re-runs (let last = performance.now()) when one of
\* its dependencies [running, gameOver, score, items, playerX, speedScale]
\* changed; `changed` says whether one did.
Resubscribe(changed, t) ==
  /\ last' = IF changed THEN t ELSE last
  /\ rafRef' = IF changed THEN LoopEffect(LoopCleanup(rafRef)) ELSE rafRef

\* tick(now) while running, with the items a spawn appended (none or one)
RunningFrame(now, spawned, delay) ==
  LET dt == now - last
      speed == PLAYER_SPEED_PER_MS * dt
      nx == playerX + (IF Right THEN speed ELSE 0) - (IF Left THEN speed ELSE 0)
      arr == items \o spawned
      r == MoveItems(arr, dt, playerX)
  IN /\ playerX' = clamp(nx, 0, Px(CANVAS_W - PLAYER_W))
     /\ lastSpawnRef' = IF spawned = <<>> THEN lastSpawnRef ELSE now
     /\ idSeedRef' = idSeedRef + Len(spawned)
     /\ speedScale' = clamp(speedScale + RAMP_PER_MS * dt, SCALE_ONE, SCALE_MAX)
     /\ items' = r.items
     /\ score' = score + r.gained
     /\ IF r.ended THEN endGame ELSE UNCHANGED <<running, gameOver>>
     \* a new items array every frame: the effect always re-runs
     /\ clock' = Max2(clock, now) + delay
     /\ last' = clock'
     \* tick asks for the next frame, then the effect re-runs
     /\ rafRef' = LoopEffect(LoopCleanup(RequestFrame(RunFrame(rafRef))))
     /\ ev' = [op |-> "tick", ran |-> TRUE, dt |-> dt, px |-> playerX, arr |-> arr,
               score |-> score, scale |-> speedScale, spawned |-> Len(spawned),
               now |-> now, lastSpawn |-> lastSpawnRef]

\* tick(now) while not running: it only draws, and keeps its closure
IdleFrame(now) ==
  /\ last' = now
  /\ clock' = Max2(clock, now)
  /\ rafRef' = RequestFrame(RunFrame(rafRef))
  /\ ev' = [op |-> "tick", ran |-> FALSE, dt |-> now - last, px |-> playerX,
            arr |-> items, score |-> score, scale |-> speedScale, spawned |-> 0,
            now |-> now, lastSpawn |-> lastSpawnRef]
  /\ UNCHANGED <<gameVars, lastSpawnRef, idSeedRef>>

\* The animation frame callback, for the frame timestamps, the outcomes of
\* Math.random() and the effect delays given
Tick(maxFrames, offsets, xs, vys, delays) ==
  /\ mounted
  /\ rafRef.live
  /\ frames < maxFrames
  /\ \E off \in offsets :
       LET now == clock + off IN
       /\ now > rafTime
       /\ rafTime' = now
       /\ frames' = frames + 1
       /\ IF ~running THEN IdleFrame(now)
          ELSE IF SpawnDue(now - lastSpawnRef, speedScale)
          THEN \E x \in xs, vy \in vys \cap VyRange(speedScale), isSafety \in BOOLEAN,
                    delay \in delays :
                 RunningFrame(now, <<NewItem(idSeedRef, x, vy, isSafety)>>, delay)
          ELSE \E delay \in delays : RunningFrame(now, <<>>, delay)
  /\ UNCHANGED <<formVars, boardVars, keysRef, touchDir, touchTicks, subsVars>>

\* The touch interval callback (every 16 ms while a button is held)
TouchTick(maxTicks) ==
  /\ mounted
  /\ touchDir # Null
  /\ intervals > 0
  /\ touchTicks < maxTicks
  /\ touchTicks' = touchTicks + 1
  /\ LET delta == IF touchDir = "left" THEN 0 - TOUCH_STEP ELSE TOUCH_STEP
     IN playerX' = clamp(playerX + Px(delta), 0, Px(CANVAS_W - PLAYER_W))
  /\ Resubscribe(playerX' # playerX, clock)
  /\ ev' = [op |-> "touchtick", px |-> playerX]
  /\ UNCHANGED <<score, running, gameOver, items, speedScale, formVars, boardVars,
                 refVars, clock, rafTime, frames, touchDir, subsVars>>

\* onTouchStart of the two buttons
TouchStart ==
  /\ mounted
  /\ \E d \in {"left", "right"} : touchDir' = d
  /\ intervals' = TouchResubscribe(touchDir, touchDir', intervals)
  /\ ev' = Input
  /\ UNCHANGED <<gameVars, formVars, boardVars, refVars, timeVars, touchTicks, mounted>>

\* onTouchEnd
TouchEnd ==
  /\ mounted
  /\ touchDir # Null
  /\ touchDir' = Null
  /\ intervals' = TouchResubscribe(touchDir, touchDir', intervals)
  /\ ev' = Input
  /\ UNCHANGED <<gameVars, formVars, boardVars, refVars, timeVars, touchTicks, mounted>>

\* onDown for a movement key.  (onDown records every key in keysRef; tick
\* reads the four movement keys only, and those are the ones kept here.)
KeyDownMove(keys) ==
  /\ mounted
  /\ \E k \in keys \ keysRef :
       /\ Cardinality(keysRef) < MaxHeld
       /\ keysRef' = keysRef \cup {k}
  /\ ev' = Input
  /\ UNCHANGED <<gameVars, formVars, boardVars, lastSpawnRef, idSeedRef, timeVars,
                 touchDir, touchTicks, subsVars>>

\* onUp
KeyUp ==
  /\ mounted
  /\ \E k \in keysRef : keysRef' = keysRef \ {k}
  /\ ev' = Input
  /\ UNCHANGED <<gameVars, formVars, boardVars, lastSpawnRef, idSeedRef, timeVars,
                 touchDir, touchTicks, subsVars>>

\* onDown for Space or Enter, and the start button: both are live only
\* while !running && !gameOver
StartGame ==
  /\ mounted
  /\ ~running /\ ~gameOver
  /\ start
  /\ Resubscribe(TRUE, clock)
  /\ ev' = [op |-> "start", score |-> score, arr |-> items, scale |-> speedScale,
            px |-> playerX]
  /\ UNCHANGED <<playerX, formVars, boardVars, keysRef, idSeedRef, clock, rafTime,
                 frames, touchDir, touchTicks, subsVars>>

\* onDown for "p", and the pause button: both are live only while running
PauseGame ==
  /\ mounted
  /\ running
  /\ pause
  /\ Resubscribe(TRUE, clock)
  /\ ev' = [op |-> "pause", score |-> score, arr |-> items, scale |-> speedScale,
            px |-> playerX]
  /\ UNCHANGED <<playerX, score, gameOver, items, speedScale, formVars, boardVars,
                 refVars, clock, rafTime, frames, touchDir, touchTicks, subsVars>>

ResetGame_ClearsBoard ==
  /\ mounted
  /\ running' = FALSE
  /\ gameOver' = FALSE
  /\ items' = <<>>
  /\ score' = 0
  /\ speedScale' = SCALE_ONE
  /\ leaderboard' = <<>>
  /\ storage' = NoEntry
  /\ Resubscribe(TRUE, clock)
  /\ ev' = [op |-> "reset"]
  /\ UNCHANGED <<playerX, formVars, refVars, clock, rafTime, frames,
                 touchDir, touchTicks, subsVars>>

\* the reset button
ResetGame ==
  /\ mounted
  /\ running' = FALSE
  /\ gameOver' = FALSE
  /\ items' = <<>>
  /\ score' = 0
  /\ speedScale' = SCALE_ONE
  \* setItems([]) is a new array: the effect re-runs
  /\ Resubscribe(TRUE, clock)
  /\ ev' = [op |-> "reset"]
  /\ UNCHANGED <<playerX, formVars, boardVars, refVars, clock, rafTime, frames,
                 touchDir, touchTicks, subsVars>>

\* The component is taken off the page: the cleanup of every effect runs
Unmount ==
  /\ mounted
  /\ mounted' = FALSE
  /\ rafRef' = LoopCleanup(rafRef)
  /\ intervals' = TouchCleanup(touchDir, intervals)
  /\ ev' = [op |-> "unmount"]
  /\ UNCHANGED <<gameVars, formVars, boardVars, refVars, last, clock, rafTime, frames,
                 touchDir, touchTicks>>

\* ------------------------------------------------------------------------
\* The leaderboard
\* ------------------------------------------------------------------------
\* onChange of the name and department inputs
SetName(names) ==
  /\ mounted
  /\ \E n \in names \ {name} : name' = n
  /\ ev' = Input
  /\ UNCHANGED <<gameVars, dept, showExport, importText, boardVars, refVars, timeVars,
                 touchDir, touchTicks, subsVars>>

SetDept(depts) ==
  /\ mounted
  /\ \E d \in depts \ {dept} : dept' = d
  /\ ev' = Input
  /\ UNCHANGED <<gameVars, name, showExport, importText, boardVars, refVars, timeVars,
                 touchDir, touchTicks, subsVars>>

\* what saveRecord computes: the alert it raises, or the board it stores
SaveOutcome_NoSort(lb, n, d, sc, t) ==
  IF trim(n) = <<>> \/ trim(d) = <<>>
  THEN [ok |-> FALSE, board |-> lb]
  ELSE [ok |-> TRUE, board |-> lb \o <<Rec(trim(n), trim(d), sc, t)>>]

SaveOutcome_NoTrim(lb, n, d, sc, t) ==
  IF n = <<>> \/ d = <<>>
  THEN [ok |-> FALSE, board |-> lb]
  ELSE [ok |-> TRUE, board |-> Sort(lb \o <<Rec(trim(n), trim(d), sc, t)>>)]

SaveOutcome_NoReturn(lb, n, d, sc, t) ==
  [ok |-> TRUE, board |-> Sort(lb \o <<Rec(trim(n), trim(d), sc, t)>>)]

SaveOutcome(lb, n, d, sc, t) ==
  IF trim(n) = <<>> \/ trim(d) = <<>>
  THEN [ok |-> FALSE, board |-> lb]
  ELSE [ok |-> TRUE, board |-> Sort(lb \o <<Rec(trim(n), trim(d), sc, t)>>)]

SaveRecord_StaysOver(maxBoard) ==
  /\ mounted
  /\ gameOver
  /\ LET out == SaveOutcome(leaderboard, name, dept, score, clock)
     IN IF ~out.ok
        THEN /\ ev' = [op |-> "save", ok |-> FALSE, alert |-> "validation",
                       lb |-> leaderboard, store |-> storage, score |-> score]
             /\ UNCHANGED <<gameOver, boardVars, last, rafRef>>
        ELSE /\ Len(out.board) <= maxBoard
             /\ leaderboard' = out.board
             /\ storage' = JSONstringify(out.board)
             /\ ev' = [op |-> "save", ok |-> TRUE, alert |-> "none",
                       lb |-> leaderboard, store |-> storage, score |-> score]
             /\ UNCHANGED <<gameOver, last, rafRef>>
  /\ UNCHANGED <<playerX, score, running, items, speedScale, formVars, refVars,
                 clock, rafTime, frames, touchDir, touchTicks, subsVars>>

\* saveRecord(): the button of the game-over form
SaveRecord(maxBoard) ==
  /\ mounted
  /\ gameOver
  /\ LET out == SaveOutcome(leaderboard, name, dept, score, clock)
     IN IF ~out.ok
        THEN /\ ev' = [op |-> "save", ok |-> FALSE, alert |-> "validation",
                       lb |-> leaderboard, store |-> storage, score |-> score]
             /\ UNCHANGED <<gameOver, boardVars, last, rafRef>>
        ELSE /\ Len(out.board) <= maxBoard
             /\ leaderboard' = out.board
             /\ storage' = JSONstringify(out.board)
             /\ gameOver' = FALSE
             /\ Resubscribe(TRUE, clock)
             /\ ev' = [op |-> "save", ok |-> TRUE, alert |-> "none",
                       lb |-> leaderboard, store |-> storage, score |-> score]
  /\ UNCHANGED <<playerX, score, running, items, speedScale, formVars, refVars,
                 clock, rafTime, frames, touchDir, touchTicks, subsVars>>

ClearLB_KeepsEntry ==
  /\ mounted
  /\ \E yes \in BOOLEAN :
       /\ IF yes
          THEN storage' = storage /\ leaderboard' = <<>>
          ELSE UNCHANGED boardVars
       /\ ev' = [op |-> "clear", ok |-> yes, alert |-> "none",
                 lb |-> leaderboard, store |-> storage]
  /\ UNCHANGED <<gameVars, formVars, refVars, timeVars, touchDir, touchTicks, subsVars>>

\* clearLB(), with the answer to confirm()
ClearLB ==
  /\ mounted
  /\ \E yes \in BOOLEAN :
       /\ IF yes
          THEN storage' = NoEntry /\ leaderboard' = <<>>
          ELSE UNCHANGED boardVars
       /\ ev' = [op |-> "clear", ok |-> yes, alert |-> "none",
                 lb |-> leaderboard, store |-> storage]
  /\ UNCHANGED <<gameVars, formVars, refVars, timeVars, touchDir, touchTicks, subsVars>>

\* exportLB() and the close button of the export panel
ExportLB ==
  /\ mounted
  /\ ~showExport
  /\ showExport' = TRUE
  /\ ev' = Input
  /\ UNCHANGED <<gameVars, name, dept, importText, boardVars, refVars, timeVars,
                 touchDir, touchTicks, subsVars>>

CloseExport ==
  /\ mounted
  /\ showExport
  /\ showExport' = FALSE
  /\ ev' = Input
  /\ UNCHANGED <<gameVars, name, dept, importText, boardVars, refVars, timeVars,
                 touchDir, touchTicks, subsVars>>

\* onChange of the import box (shown with the export panel)
SetImportText(texts) ==
  /\ mounted
  /\ showExport
  /\ \E t \in texts \ {importText} : importText' = t
  /\ ev' = Input
  /\ UNCHANGED <<gameVars, name, dept, showExport, boardVars, refVars, timeVars,
                 touchDir, touchTicks, subsVars>>

\* what the try block of importLB computes; ok is FALSE when it throws
\* (JSON.parse on a text that is not JSON, the spread on a value that is
\* not iterable)
ImportOutcome_SwallowsError(lb, text) ==
  LET parsed == JSONparse(text)
  IN IF parsed.ok /\ parsed.iterable
     THEN [ok |-> TRUE, board |-> Sort(FilterBoolean(lb \o parsed.value))]
     ELSE [ok |-> TRUE, board |-> Sort(FilterBoolean(lb))]

ImportOutcome_Replaces(lb, text) ==
  LET parsed == JSONparse(text)
  IN IF parsed.ok /\ parsed.iterable
     THEN [ok |-> TRUE, board |-> Sort(FilterBoolean(parsed.value))]
     ELSE [ok |-> FALSE, board |-> lb]

ImportOutcome(lb, text) ==
  LET parsed == JSONparse(text)
  IN IF parsed.ok /\ parsed.iterable
     THEN [ok |-> TRUE, board |-> Sort(FilterBoolean(lb \o parsed.value))]
     ELSE [ok |-> FALSE, board |-> lb]

\* importLB(): the button of the export panel
ImportLB(maxBoard) ==
  /\ mounted
  /\ showExport
  /\ LET out == ImportOutcome(leaderboard, importText)
     IN IF out.ok
        THEN /\ Len(out.board) <= maxBoard
             /\ leaderboard' = out.board
             /\ storage' = JSONstringify(out.board)
             /\ importText' = EmptyText
             /\ ev' = [op |-> "import", ok |-> TRUE, alert |-> "done",
                       lb |-> leaderboard, store |-> storage, text |-> importText]
        ELSE /\ ev' = [op |-> "import", ok |-> FALSE, alert |-> "error",
                       lb |-> leaderboard, store |-> storage, text |-> importText]
             /\ UNCHANGED <<boardVars, importText>>
  /\ UNCHANGED <<gameVars, name, dept, showExport, refVars, timeVars,
                 touchDir, touchTicks, subsVars>>

\* ------------------------------------------------------------------------
\* Specifications
\* ------------------------------------------------------------------------
\* Every handler, each with its smallest set of inputs
InitAll == Init({NoEntry})

Next ==
  \/ Tick(MaxFrames, {1000}, {170}, {350}, EffectDelays)
  \/ TouchTick(MaxTouchTicks)
  \/ TouchStart
  \/ TouchEnd
  \/ KeyDownMove({"arrowleft"})
  \/ KeyUp
  \/ StartGame
  \/ PauseGame
  \/ ResetGame
  \/ SetName({<<"K">>})
  \/ SetDept({<<"Q">>})
  \/ SaveRecord(MaxBoard)
  \/ ClearLB
  \/ ExportLB
  \/ CloseExport
  \/ SetImportText({JsonArray(<<JsonRecord(OldHigh)>>)})
  \/ ImportLB(MaxBoard)

Spec == InitAll /\ [][Next]_vars

\* The frames of a run with every frame input: frame timestamps, spawn
\* positions, fall speeds and item kinds
InitLoop == Init({NoEntry})

NextLoop ==
  \/ Tick(LoopFrames, RafOffsets, XChoices, VyChoices, EffectDelays)
  \/ KeyDownMove({"arrowleft"})
  \/ KeyUp
  \/ StartGame
  \/ PauseGame
  \/ ResetGame

SpecLoop == InitLoop /\ [][NextLoop]_vars

\* The spawn timer under frames at every distance from the last spawn
InitSpawn == Init({NoEntry})

NextSpawn ==
  \/ Tick(LoopFrames, SpawnOffsets, XChoices, VyChoices, EffectDelays)
  \/ StartGame
  \/ PauseGame
  \/ ResetGame

SpecSpawn == InitSpawn /\ [][NextSpawn]_vars

\* The registrations of the two effects under re-subscribing state changes,
\* touch presses and releases, and the teardown
InitSubs == Init({NoEntry})

NextSubs ==
  \/ Tick(MaxFrames, RafOffsets, {170}, {350}, EffectDelays)
  \/ TouchTick(MaxTouchTicks)
  \/ TouchStart
  \/ TouchEnd
  \/ KeyDownMove({"arrowleft"})
  \/ KeyUp
  \/ StartGame
  \/ PauseGame
  \/ ResetGame
  \/ Unmount

SpecSubs == InitSubs /\ [][NextSubs]_vars

\* The paddle under frames and touch interval callbacks in every
\* interleaving, with every movement key and touch direction
InitPaddle == Init({NoEntry})

NextPaddle ==
  \/ Tick(MaxFrames, RafOffsets, {170}, {350}, EffectDelays)
  \/ TouchTick(PaddleTouchTicks)
  \/ TouchStart
  \/ TouchEnd
  \/ KeyDownMove(MoveKeys)
  \/ KeyUp
  \/ StartGame

SpecPaddle == InitPaddle /\ [][NextPaddle]_vars

\* The leaderboard with every stored and pasted text, and the runs that end
\* in the scores to save
InitBoard == Init(InitialStorage)

NextBoard ==
  \/ Tick(MaxFrames, {1000}, {170}, {350}, EffectDelays)
  \/ StartGame
  \/ SetName(NameChoices)
  \/ SetDept(DeptChoices)
  \/ SaveRecord(BoardSize)
  \/ ClearLB
  \/ ExportLB
  \/ CloseExport
  \* typed, or copied from the read-only box that shows the export
  \/ SetImportText(ImportTexts \cup {JSONstringify(leaderboard)})
  \/ ImportLB(BoardSize)

SpecBoard == InitBoard /\ [][NextBoard]_vars

\* ------------------------------------------------------------------------
\* Properties of a frame update.  After a frame, ev holds what the frame
\* started from: the items after the spawn (ev.arr), the paddle position of
\* the closure (ev.px), the step (ev.dt), the score and the speedScale.
\* ------------------------------------------------------------------------
RanFrame == ev.op = "tick" /\ ev.ran

\* the items of the frame that collide with the paddle, by index
Hits(kind) ==
  {i \in DOMAIN ev.arr :
     /\ ev.arr[i].type = kind
     /\ Collide(ev.arr[i], FallTo(ev.arr[i], ev.dt), ev.px)}

\* the items of the frame that neither collide nor fall off the canvas
Survivors ==
  {i \in DOMAIN ev.arr :
     /\ ~Collide(ev.arr[i], FallTo(ev.arr[i], ev.dt), ev.px)
     /\ FallTo(ev.arr[i], ev.dt) < Px(CANVAS_H + DROP_MARGIN)}

Moved(i) == [ev.arr[i] EXCEPT !.y = FallTo(ev.arr[i], ev.dt)]

ItemIds == {items[j].id : j \in DOMAIN items}

\* C1: after a frame in which a hazard item collides with the paddle, the run
\* has ended (running = false, gameOver = true) and the item list is empty,
\* whatever other items the frame held.
C1_HazardEndsRun ==
  (RanFrame /\ Hits("hazard") # {}) => (~running /\ gameOver /\ items = <<>>)

\* a hazard collided in a frame that held a second item, which did not collide
C1_Witness ==
  /\ RanFrame
  /\ Hits("hazard") # {}
  /\ Survivors # {}

\* the score grew by the number of safety items that collided, those items
\* are gone, and every item that neither collided nor fell off is still there
SafetyCollected ==
  /\ score = ev.score + Cardinality(Hits("safety"))
  /\ \A i \in Hits("safety") : ev.arr[i].id \notin ItemIds
  /\ \A i \in Survivors : \E j \in DOMAIN items : items[j] = Moved(i)
  /\ Len(items) = Cardinality(Survivors)

\* C2 as stated: in a frame while running, every safety item that collides
\* adds exactly 1 to the score and is removed, and no other item is removed.
C2_Original == (RanFrame /\ Hits("safety") # {}) => SafetyCollected

\* C2 as amended: the same, in a frame in which no hazard item collides.
C2_SafetyCollected ==
  (RanFrame /\ Hits("safety") # {} /\ Hits("hazard") = {}) => SafetyCollected

\* a safety item was collected in a frame that kept an older item
C2_Witness ==
  /\ RanFrame
  /\ Hits("hazard") = {}
  /\ \E i \in Hits("safety") : \E k \in Survivors : k < i

\* C3: a frame in which a safety item and a hazard item both collide ends in
\* game-over with the score unchanged, in either iteration order.
C3_MixedFrameNoScore ==
  (RanFrame /\ Hits("safety") # {} /\ Hits("hazard") # {})
    => (gameOver /\ ~running /\ score = ev.score)

\* the safety item came first in the iteration order
C3_Witness ==
  /\ RanFrame
  /\ \E i \in Hits("safety") : \E k \in Hits("hazard") : i < k

\* the hazard item came first in the iteration order
C3_WitnessHazardFirst ==
  /\ RanFrame
  /\ \E i \in Hits("safety") : \E k \in Hits("hazard") : k < i

\* C6: player x stays within [0, CANVAS_W - PLAYER_W].
C6_PlayerInBounds == 0 <= playerX /\ playerX <= Px(CANVAS_W - PLAYER_W)

\* a frame moved the paddle against the left edge, and the touch interval
\* pushed it further
C6_Witness ==
  /\ ev.op = "touchtick"
  /\ ev.px = 0
  /\ touchDir = "left"
  /\ playerX = 0

\* C7 as stated: a frame update while running never lowers difficultyScale,
\* and difficultyScale is always at least 1 and at most 3.5.
C7_Original ==
  /\ RanFrame => speedScale >= ev.scale
  /\ SCALE_ONE <= speedScale /\ speedScale <= SCALE_MAX

\* the part of C7 that holds: difficultyScale stays within [1, 3.5]
ScaleInRange == SCALE_ONE <= speedScale /\ speedScale <= SCALE_MAX

\* C4 as stated: pause() sets running to false and keeps the score, the items
\* and the difficultyScale, and the step that takes the paused game back to
\* Running keeps them too.
C4_Original ==
  [][/\ (ev'.op = "pause") => (/\ ~running'
                                /\ score' = score
                                /\ items' = items
                                /\ speedScale' = speedScale)
     /\ (ev.op = "pause" /\ running') => (/\ score' = score
                                         /\ items' = items
                                         /\ speedScale' = speedScale)]_vars

\* the part of C4 that holds: pause() clears nothing
PauseKeepsState ==
  (ev.op = "pause") => (/\ ~running
                        /\ score = ev.score
                        /\ items = ev.arr
                        /\ speedScale = ev.scale
                        /\ playerX = ev.px)

\* what the code does instead: the only way back to Running is start(),
\* which clears the run
RunningOnlyByStart ==
  [][(~running /\ running') => (/\ ev'.op = "start"
                                /\ score' = 0
                                /\ items' = <<>>
                                /\ speedScale' = SCALE_ONE)]_vars

\* ------------------------------------------------------------------------
\* Properties of the run's state machine
\* ------------------------------------------------------------------------
Ended == gameOver /\ ~running

\* C5 as stated: once the run has ended, no step other than start() makes
\* gameOver false or running true.
C5_Original ==
  [][(Ended /\ ev'.op # "start") => Ended']_vars

\* the form passes saveRecord's validation
FormFilled == trim(name) # <<>> /\ trim(dept) # <<>>

\* C5 as amended: once the run has ended, no step other than start(), the
\* reset button and a save that passes validation makes gameOver false or
\* running true.
C5_EndedUntilResetOrSave ==
  [][(/\ Ended
      /\ ev'.op \notin {"start", "reset"}
      /\ ~(ev'.op = "save" /\ FormFilled)) => Ended']_vars

\* a frame update and a rejected save in the game-over state left it ended
C5_Witness ==
  /\ Ended
  /\ \/ ev.op = "tick" /\ ~ev.ran
     \/ ev.op = "save" /\ ~ev.ok

\* ------------------------------------------------------------------------
\* Properties of the leaderboard.  After save, import and clear, ev holds the
\* leaderboard and the storage entry the handler started from (ev.lb,
\* ev.store), whether it went through (ev.ok) and the alert it raised.
\* ------------------------------------------------------------------------
BoardOp == ev.op \in {"save", "import", "clear"}

SortedDesc(lb) ==
  \A i \in DOMAIN lb : \A j \in DOMAIN lb : i < j => lb[i].score >= lb[j].score

\* C8 as stated: after any save, import or clear the leaderboard is sorted
\* descending by score.
C8_Original == BoardOp => SortedDesc(leaderboard)

\* C8 as amended: after a save that passes validation, an import that parses
\* and a confirmed clear, the leaderboard is sorted descending by score.
C8_SortedAfterSuccess == (BoardOp /\ ev.ok) => SortedDesc(leaderboard)

\* a save and an import that started from an unsorted leaderboard
C8_Witness ==
  /\ ev.op \in {"save", "import"}
  /\ ev.ok
  /\ ~SortedDesc(ev.lb)
  /\ Len(leaderboard) > Len(ev.lb)

Persisted == IF storage.kind = "array" THEN JSONparse(storage).value ELSE <<>>

\* C10: right after save, import and clear the persisted leaderboard equals
\* the leaderboard in memory.
C10_PersistedEqualsMemory == BoardOp => Persisted = leaderboard

\* a confirmed clear of a stored leaderboard, and a save on top of one
C10_Witness ==
  /\ BoardOp
  /\ ev.ok
  /\ ev.lb # <<>>
  /\ ev.store # storage

\* ------------------------------------------------------------------------
\* Properties of the records on the leaderboard
\* ------------------------------------------------------------------------
\* how often the record r is on the leaderboard lb
Count(lb, r) == Cardinality({i \in DOMAIN lb : lb[i] = r})

\* every record of old is on new, as often at least as on old
KeepsRecords(old, new) ==
  \A i \in DOMAIN old : Count(new, old[i]) >= Count(old, old[i])

\* the same records on both, in whatever order
SameRecords(a, b) == KeepsRecords(a, b) /\ KeepsRecords(b, a)

\* lb without its i-th record
Without(lb, i) == SubSeq(lb, 1, i - 1) \o SubSeq(lb, i + 1, Len(lb))

\* t is str without the white space at its two ends
IsTrimOf(t, str) ==
  \E a \in 1..(Len(str) + 1) : \E b \in (a - 1)..Len(str) :
    /\ t = SubSeq(str, a, b)
    /\ \A i \in 1..(a - 1) : str[i] = " "
    /\ \A i \in (b + 1)..Len(str) : str[i] = " "
    /\ t # <<>> => (t[1] # " " /\ t[Len(t)] # " ")

\* C11: a save that goes through adds exactly one record, holding the trimmed
\* name and department and the current score, and keeps every record that was
\* on the leaderboard; an import that goes through keeps every record too;
\* no step but clear takes a record off the leaderboard.
C11_RecordsKept ==
  [][/\ (ev'.op = "save" /\ ev'.ok) =>
          \E i \in DOMAIN leaderboard' :
            /\ IsTrimOf(leaderboard'[i].name, name)
            /\ IsTrimOf(leaderboard'[i].dept, dept)
            /\ leaderboard'[i].score = score
            /\ SameRecords(Without(leaderboard', i), leaderboard)
     /\ (ev'.op = "import" /\ ev'.ok) => KeepsRecords(leaderboard, leaderboard')
     /\ ~KeepsRecords(leaderboard, leaderboard') => ev'.op = "clear"]_vars

\* a name typed with white space around it was saved on top of stored records
C11_Witness ==
  /\ ev.op = "save"
  /\ ev.ok
  /\ Len(ev.lb) >= 2
  /\ name = <<" ", "K", " ">>
  /\ Len(leaderboard) = Len(ev.lb) + 1

\* records were imported on top of stored records
C11_WitnessImport ==
  /\ ev.op = "import"
  /\ ev.ok
  /\ ev.lb # <<>>
  /\ Len(leaderboard) > Len(ev.lb)

\* the leaderboards whose export is examined: up to two of the stored
\* records and of the records a run of the game saves
ExportableRecords ==
  {OldLow, OldHigh}
    \cup {Rec(<<"K">>, <<"Q">>, sc, t) : sc \in 0..2, t \in {1030, 2030, 2050}}

ExportedBoards ==
  {<<>>} \cup {<<a>> : a \in ExportableRecords}
         \cup {<<a, b>> : a \in ExportableRecords, b \in ExportableRecords}

\* C12: importing the exported text of a leaderboard L (of records) into an
\* empty leaderboard goes through and yields a leaderboard with the same
\* records as L.
C12_RoundTrip ==
  (/\ ev.op = "import"
   /\ ev.lb = <<>>
   /\ \E L \in ExportedBoards : ev.text = JSONstringify(L))
    => \A L \in ExportedBoards :
         ev.text = JSONstringify(L) => (ev.ok /\ SameRecords(leaderboard, L))

\* the export of an unsorted leaderboard was copied, the leaderboard cleared,
\* and the copy imported
C12_Witness ==
  /\ ev.op = "import"
  /\ ev.lb = <<>>
  /\ ev.store = NoEntry
  /\ ev.text = JSONstringify(<<OldLow, OldHigh>>)
  /\ leaderboard = <<OldHigh, OldLow>>

\* stronger than C12, and false: the round trip keeps the order of L too
RoundTripKeepsOrder ==
  (ev.op = "import" /\ ev.lb = <<>>)
    => \A L \in ExportedBoards : ev.text = JSONstringify(L) => leaderboard = L

\* str is empty or holds white space only
Blank(str) == \A i \in DOMAIN str : str[i] = " "

\* C13: a save with a name or a department that is empty or only white space
\* creates no record: it raises the notice, leaves the leaderboard and the
\* storage entry as they were, and gameOver stays true.
C13_BlankSaveRejected ==
  (ev.op = "save" /\ (Blank(name) \/ Blank(dept)))
    => (/\ ev.alert = "validation"
        /\ leaderboard = ev.lb
        /\ storage = ev.store
        /\ gameOver)

\* a save with a name of white space only and a department filled in, over a
\* stored leaderboard
C13_Witness ==
  /\ ev.op = "save"
  /\ name = <<" ">>
  /\ ~Blank(dept)
  /\ ev.lb # <<>>

\* a save with the name filled in and a department of white space only
C13_WitnessDept ==
  /\ ev.op = "save"
  /\ ~Blank(name)
  /\ dept = <<" ">>

\* ------------------------------------------------------------------------
\* Properties of the game loop
\* ------------------------------------------------------------------------
\* C14: frame updates, start, pause, endGame, reset and movement input leave
\* the leaderboard in memory and the storage entry as they are: only save,
\* import and clear change them.
C14_LoopKeepsBoard ==
  [][ev'.op \notin {"save", "import", "clear"}
       => (leaderboard' = leaderboard /\ storage' = storage)]_vars

\* a frame of a run that started with a record on the leaderboard
C14_Witness ==
  /\ RanFrame
  /\ leaderboard # <<>>
  /\ storage # NoEntry

\* C15: start() empties the item list, sets score to 0, difficultyScale to 1,
\* gameOver to false and running to true, sets the spawn timer reference to
\* the current time, and leaves the player position and the leaderboard as
\* they are.
C15_StartResets ==
  [][ev'.op = "start"
       => (/\ items' = <<>>
           /\ score' = 0
           /\ speedScale' = SCALE_ONE
           /\ ~gameOver'
           /\ running'
           /\ lastSpawnRef' = clock'
           /\ playerX' = playerX
           /\ leaderboard' = leaderboard
           /\ storage' = storage)]_vars

\* start() on a paused run that had items, a score, a raised difficultyScale
\* and a paddle moved off the middle
C15_Witness ==
  /\ ev.op = "start"
  /\ ev.arr # <<>>
  /\ ev.score > 0
  /\ ev.scale > SCALE_ONE
  /\ ev.px # Px(CANVAS_W - PLAYER_W) \div 2
  /\ lastSpawnRef > MountTime

\* the items a step creates: idSeedRef.current++ runs once for each
Created == idSeedRef' - idSeedRef

\* C16: a frame update creates at most one item, and only while running and
\* when the time since the last spawn (or since start()) exceeds
\* max(180 ms, 700 ms / difficultyScale); two consecutive spawns of a run are
\* more than 180 ms apart; no other step creates an item.
C16_SpawnGated ==
  [][/\ Created \in {0, 1}
     /\ Len(items') <= Len(items) + Created
     /\ Created = 1 =>
          LET gap == rafTime' - lastSpawnRef
          IN /\ ev'.op = "tick"
             /\ running
             /\ gap > SPAWN_FLOOR_MS
             /\ gap * speedScale > SPAWN_MS * SCALE_ONE
             /\ lastSpawnRef' = rafTime'
             /\ lastSpawnRef' - lastSpawnRef > SPAWN_FLOOR_MS]_vars

\* a spawn less than 700 ms after the spawn before it, let through by a
\* difficultyScale above 1
C16_Witness ==
  /\ RanFrame
  /\ ev.spawned = 1
  /\ ev.lastSpawn > MountTime
  /\ ev.now - ev.lastSpawn < SPAWN_MS
  /\ ev.scale > SCALE_ONE

\* a frame over the floor of 180 ms and under the interval, which spawned
\* nothing
C16_WitnessHeld ==
  /\ RanFrame
  /\ ev.spawned = 0
  /\ ev.now - ev.lastSpawn > SPAWN_FLOOR_MS

\* ------------------------------------------------------------------------
\* Properties of the registered callbacks
\* ------------------------------------------------------------------------
\* C17: at most one frame callback and at most one touch interval is
\* registered at any time, and after the teardown none is.
C17_OneCallbackEach ==
  /\ FrameCallbacks(rafRef) <= 1
  /\ intervals \in {0, 1}
  /\ ~mounted => (FrameCallbacks(rafRef) = 0 /\ intervals = 0)

\* the teardown of a running game with a touch button held, after frames and
\* interval callbacks that re-subscribed the game loop
C17_Witness ==
  /\ ev.op = "unmount"
  /\ ~mounted
  /\ running
  /\ touchDir # Null
  /\ frames > 0
  /\ touchTicks > 0

\* while mounted the game loop always has its frame callback, and a held
\* touch button its interval
OneCallbackWhileMounted ==
  mounted => (rafRef.live /\ (intervals = 1 <=> touchDir # Null))

\* ------------------------------------------------------------------------
\* Properties of the run and its record
\* ------------------------------------------------------------------------
\* C18: running and gameOver are never both true.
C18_NotRunningAndOver == ~(running /\ gameOver)

\* a frame in which a hazard collided ended a run that was running
C18_Witness ==
  /\ RanFrame
  /\ Hits("hazard") # {}
  /\ gameOver
  /\ frames > 1

\* C19: a save goes through only while gameOver is true and leaves the
\* game-over state, adding one record that holds the score; gameOver becomes
\* true only when a run ends, and the score does not change while it is
\* true: so an ended run adds at most one record, with its final score.
C19_OneRecordPerRun ==
  [][/\ (ev'.op = "save" /\ ev'.ok) =>
          /\ gameOver
          /\ ~gameOver'
          /\ \E i \in DOMAIN leaderboard' :
               /\ leaderboard'[i].score = score
               /\ SameRecords(Without(leaderboard', i), leaderboard)
     /\ (ev'.op = "save" /\ ~ev'.ok) => leaderboard' = leaderboard
     /\ (gameOver /\ gameOver') => score' = score
     /\ (~gameOver /\ gameOver') => (running /\ ~running' /\ ev'.op = "tick")]_vars

\* the record of a run that ended with a score above 0 was saved, and the
\* game-over form is gone
C19_Witness ==
  /\ ev.op = "save"
  /\ ev.ok
  /\ ev.score > 0
  /\ ~gameOver
  /\ \E i \in DOMAIN leaderboard : leaderboard[i].score = ev.score
====
